---- MODULE Spec2Model ----
(***************************************************************************)
(* wan_inference_script.py: the command builder create_inference_command   *)
(* and the CLI front-end main().                                           *)
(*                                                                         *)
(* Python values are represented as follows.                               *)
(*   - An argument that may be None is a sequence of length <= 1:          *)
(*     <<>> is None and <<v>> is the value v.                              *)
(*   - A float is the integer number of its tenths (1.0 is 10, 0.3 is 3);  *)
(*     only non-negative floats with one decimal digit are drawn.          *)
(*   - The list cmd of create_inference_command is a sequence of strings;  *)
(*     the string it returns is their join.                                *)
(***************************************************************************)
EXTENDS Integers, Sequences, FiniteSets, TLC

VARIABLES
    pc,          \* position of the running function
    argv,        \* what the user typed (main)
    args,        \* the argparse namespace (main)
    req,         \* keyword arguments of the call of create_inference_command
    cmd_tokens,  \* the list cmd built by create_inference_command
    cmd,         \* the string create_inference_command returned
    stdout,      \* the lines printed so far
    shell,       \* the strings handed to os.system so far
    shell_status,\* the statuses os.system returned so far
    exit_code    \* None while running, else the process's exit code

vars == <<pc, argv, args, req, cmd_tokens, cmd, stdout, shell, shell_status, exit_code>>

(***************************************************************************)
(* Bounds of the model                                                     *)
(***************************************************************************)
\* infer_steps is drawn from 0..MaxSteps
MaxSteps == 2
\* blocks_to_swap and trim_tail_frames are drawn from -1..MaxBlocks
MaxBlocks == 1

(***************************************************************************)
(* Python values                                                           *)
(***************************************************************************)
None == <<>>
Some(v) == <<v>>

\* truth value of an Optional[str]: None and "" are false
TruthyStr(o) == o # None /\ o[1] # ""
\* truth value of an Optional[int]: None and 0 are false
TruthyInt(o) == o # None /\ o[1] # 0

Digit(d) == CASE d = 0 -> "0" [] d = 1 -> "1" [] d = 2 -> "2" [] d = 3 -> "3"
              [] d = 4 -> "4" [] d = 5 -> "5" [] d = 6 -> "6" [] d = 7 -> "7"
              [] d = 8 -> "8" [] d = 9 -> "9"

RECURSIVE NatStr(_)
NatStr(n) == IF n < 10 THEN Digit(n) ELSE NatStr(n \div 10) \o Digit(n % 10)

\* str(n) of an int
IntStr(n) == IF n < 0 THEN "-" \o NatStr(-n) ELSE NatStr(n)

\* str(x) of a float x >= 0 given in tenths: 10 -> "1.0", 3 -> "0.3"
FloatStr(t) == NatStr(t \div 10) \o "." \o Digit(t % 10)

\* f'"{s}"'
Quoted(s) == "\"" \o s \o "\""

RECURSIVE Join(_)
\* " ".join(tokens)
Join(tokens) ==
    IF tokens = <<>> THEN ""
    ELSE IF Len(tokens) = 1 THEN tokens[1]
    ELSE tokens[1] \o " " \o Join(Tail(tokens))

\* if cond: cmd.extend(tokens)
When(cond, tokens) == IF cond THEN tokens ELSE <<>>

(***************************************************************************)
(* create_inference_command                                                *)
(***************************************************************************)
\* the defaults of the signature; dit_model_path has none
DefaultRequest(dit_model_path) ==
    [ dit_model_path |-> dit_model_path,
      dit_high_noise_path |-> None,
      vae_path |-> None,
      t5_path |-> None,
      lora_low_noise_path |-> None,
      lora_high_noise_path |-> None,
      lora_multiplier |-> 10,
      lora_multiplier_high_noise |-> 10,
      prompt |-> "A video of CHARACTER_VANRAJ_V1 walking in a garden",
      negative_prompt |-> None,
      video_size |-> <<768, 512>>,
      video_length |-> 81,
      fps |-> 24,
      infer_steps |-> None,
      seed |-> 42,
      guidance_scale |-> None,
      guidance_scale_high_noise |-> None,
      flow_shift |-> None,
      timestep_boundary |-> None,
      sample_solver |-> "unipc",
      cfg_skip_mode |-> "none",
      cfg_apply_ratio |-> None,
      slg_layers |-> None,
      slg_scale |-> 30,
      slg_start |-> 0,
      slg_end |-> 3,
      slg_mode |-> None,
      task |-> "t2v-14B",
      device |-> "cuda",
      vae_dtype |-> "bfloat16",
      fp8 |-> TRUE,
      fp8_scaled |-> TRUE,
      fp8_fast |-> TRUE,
      fp8_t5 |-> TRUE,
      attn_mode |-> "flash3",
      compile_model |-> TRUE,
      blocks_to_swap |-> 0,
      offload_inactive_dit |-> FALSE,
      vae_cache_cpu |-> FALSE,
      cpu_noise |-> FALSE,
      save_path |-> "./outputs",
      output_type |-> "video",
      trim_tail_frames |-> 0,
      no_metadata |-> FALSE ]

\* lines 137-142
RequiredTokens(r) ==
    <<"python", "wan_generate_video.py">>
    \o <<"--task", r.task>>
    \o <<"--save_path", r.save_path>>
    \o <<"--prompt", Quoted(r.prompt)>>

\* lines 144-152
ModelPathTokens(r) ==
    When(r.dit_model_path # "", <<"--dit", r.dit_model_path>>)
    \o When(TruthyStr(r.dit_high_noise_path), <<"--dit_high_noise">> \o r.dit_high_noise_path)
    \o When(TruthyStr(r.vae_path), <<"--vae">> \o r.vae_path)
    \o When(TruthyStr(r.t5_path), <<"--t5">> \o r.t5_path)

\* faulty variant: the multiplier is emitted only when it differs from 1.0
LoraTokens_DropsUnitMultiplier(r) ==
    When(TruthyStr(r.lora_low_noise_path),
         <<"--lora_weight">> \o r.lora_low_noise_path
         \o When(r.lora_multiplier # 10, <<"--lora_multiplier", FloatStr(r.lora_multiplier)>>))
    \o When(TruthyStr(r.lora_high_noise_path),
         <<"--lora_weight_high_noise">> \o r.lora_high_noise_path
         \o <<"--lora_multiplier_high_noise", FloatStr(r.lora_multiplier_high_noise)>>)

\* lines 154-161
LoraTokens(r) ==
    When(TruthyStr(r.lora_low_noise_path),
         <<"--lora_weight">> \o r.lora_low_noise_path
         \o <<"--lora_multiplier", FloatStr(r.lora_multiplier)>>)
    \o When(TruthyStr(r.lora_high_noise_path),
         <<"--lora_weight_high_noise">> \o r.lora_high_noise_path
         \o <<"--lora_multiplier_high_noise", FloatStr(r.lora_multiplier_high_noise)>>)

\* lines 163-173
GenerationTokens(r) ==
    When(TruthyStr(r.negative_prompt), <<"--negative_prompt", Quoted(r.negative_prompt[1])>>)
    \o <<"--video_size", IntStr(r.video_size[1]), IntStr(r.video_size[2])>>
    \o <<"--video_length", IntStr(r.video_length)>>
    \o <<"--fps", IntStr(r.fps)>>
    \o <<"--seed", IntStr(r.seed)>>
    \o When(TruthyInt(r.infer_steps), <<"--infer_steps", IntStr(r.infer_steps[1])>>)

\* lines 175-183
GuidanceTokens(r) ==
    When(r.guidance_scale # None, <<"--guidance_scale", FloatStr(r.guidance_scale[1])>>)
    \o When(r.guidance_scale_high_noise # None,
            <<"--guidance_scale_high_noise", FloatStr(r.guidance_scale_high_noise[1])>>)
    \o When(r.flow_shift # None, <<"--flow_shift", FloatStr(r.flow_shift[1])>>)
    \o When(r.timestep_boundary # None, <<"--timestep_boundary", FloatStr(r.timestep_boundary[1])>>)

\* lines 185-191
SamplingTokens(r) ==
    <<"--sample_solver", r.sample_solver>>
    \o When(r.cfg_skip_mode # "none", <<"--cfg_skip_mode", r.cfg_skip_mode>>)
    \o When(r.cfg_apply_ratio # None, <<"--cfg_apply_ratio", FloatStr(r.cfg_apply_ratio[1])>>)

\* faulty variant: the scale is emitted outside the slg_layers block
SlgTokens_ScaleAlways(r) ==
    When(TruthyStr(r.slg_layers), <<"--slg_layers">> \o r.slg_layers)
    \o <<"--slg_scale", FloatStr(r.slg_scale)>>
    \o When(TruthyStr(r.slg_layers),
         <<"--slg_start", FloatStr(r.slg_start)>>
         \o <<"--slg_end", FloatStr(r.slg_end)>>
         \o When(TruthyStr(r.slg_mode), <<"--slg_mode">> \o r.slg_mode))

\* lines 193-200
SlgTokens(r) ==
    When(TruthyStr(r.slg_layers),
         <<"--slg_layers">> \o r.slg_layers
         \o <<"--slg_scale", FloatStr(r.slg_scale)>>
         \o <<"--slg_start", FloatStr(r.slg_start)>>
         \o <<"--slg_end", FloatStr(r.slg_end)>>
         \o When(TruthyStr(r.slg_mode), <<"--slg_mode">> \o r.slg_mode))

\* lines 202-204
PerformanceTokens(r) ==
    <<"--device", r.device>> \o <<"--vae_dtype", r.vae_dtype>>

\* faulty variant: --fp8_fast is nested under fp8
OptimizationTokens_FastNeedsFp8(r) ==
    When(r.fp8, <<"--fp8">>)
    \o When(r.fp8_scaled, <<"--fp8_scaled">>)
    \o When(r.fp8 /\ r.fp8_fast, <<"--fp8_fast">>)
    \o When(r.fp8_t5, <<"--fp8_t5">>)
    \o When(r.attn_mode # "torch", <<"--attn_mode", r.attn_mode>>)
    \o When(r.compile_model, <<"--compile">>)

\* lines 206-221
OptimizationTokens(r) ==
    When(r.fp8, <<"--fp8">>)
    \o When(r.fp8_scaled, <<"--fp8_scaled">>)
    \o When(r.fp8_fast, <<"--fp8_fast">>)
    \o When(r.fp8_t5, <<"--fp8_t5">>)
    \o When(r.attn_mode # "torch", <<"--attn_mode", r.attn_mode>>)
    \o When(r.compile_model, <<"--compile">>)

\* lines 223-230
MemoryTokens(r) ==
    When(r.blocks_to_swap > 0, <<"--blocks_to_swap", IntStr(r.blocks_to_swap)>>)
    \o When(r.offload_inactive_dit, <<"--offload_inactive_dit">>)
    \o When(r.vae_cache_cpu, <<"--vae_cache_cpu">>)
    \o When(r.cpu_noise, <<"--cpu_noise">>)

\* lines 232-237
OutputTokens(r) ==
    <<"--output_type", r.output_type>>
    \o When(r.trim_tail_frames > 0, <<"--trim_tail_frames", IntStr(r.trim_tail_frames)>>)
    \o When(r.no_metadata, <<"--no_metadata">>)

\* faulty variant: the output section is built before the memory section
CommandTokens_OutputBeforeMemory(r) ==
    RequiredTokens(r) \o ModelPathTokens(r) \o LoraTokens(r) \o GenerationTokens(r)
    \o GuidanceTokens(r) \o SamplingTokens(r) \o SlgTokens(r) \o PerformanceTokens(r)
    \o OptimizationTokens(r) \o OutputTokens(r) \o MemoryTokens(r)

\* the list cmd at line 239, before the join
CommandTokens(r) ==
    RequiredTokens(r) \o ModelPathTokens(r) \o LoraTokens(r) \o GenerationTokens(r)
    \o GuidanceTokens(r) \o SamplingTokens(r) \o SlgTokens(r) \o PerformanceTokens(r)
    \o OptimizationTokens(r) \o MemoryTokens(r) \o OutputTokens(r)

\* what the function returns
create_inference_command(r) == Join(CommandTokens(r))

(***************************************************************************)
(* The builder on its own: every request of Requests is passed to it once. *)
(***************************************************************************)
NotCalled == <<>>

OptStrs(v) == {None, Some(""), Some(v)}

\* a request with every optional argument supplied and every switch on
FullRequest ==
    [ DefaultRequest("dit_low.safetensors") EXCEPT
      !.dit_high_noise_path = Some("dit_high.safetensors"),
      !.vae_path = Some("vae.safetensors"),
      !.t5_path = Some("t5.pth"),
      !.lora_low_noise_path = Some("lora_low.safetensors"),
      !.lora_high_noise_path = Some("lora_high.safetensors"),
      !.negative_prompt = Some("blurry"),
      !.infer_steps = Some(1),
      !.guidance_scale = Some(50),
      !.guidance_scale_high_noise = Some(35),
      !.flow_shift = Some(30),
      !.timestep_boundary = Some(9),
      !.cfg_skip_mode = "early",
      !.cfg_apply_ratio = Some(5),
      !.slg_layers = Some("0,1,2"),
      !.slg_mode = Some("original"),
      !.blocks_to_swap = 1,
      !.offload_inactive_dit = TRUE,
      !.vae_cache_cpu = TRUE,
      !.cpu_noise = TRUE,
      !.trim_tail_frames = 1,
      !.no_metadata = TRUE ]

Backgrounds == {DefaultRequest("dit_low.safetensors"), FullRequest}

\* every combination of the nine switches
BoolFamily ==
    { [b EXCEPT !.fp8 = f1, !.fp8_scaled = f2, !.fp8_fast = f3, !.fp8_t5 = f4,
                !.compile_model = f5, !.offload_inactive_dit = f6,
                !.vae_cache_cpu = f7, !.cpu_noise = f8, !.no_metadata = f9] :
      b \in Backgrounds, f1 \in BOOLEAN, f2 \in BOOLEAN, f3 \in BOOLEAN,
      f4 \in BOOLEAN, f5 \in BOOLEAN, f6 \in BOOLEAN, f7 \in BOOLEAN,
      f8 \in BOOLEAN, f9 \in BOOLEAN }

\* the LoRA pairs and the skip-layer-guidance group
PairFamily ==
    { [b EXCEPT !.lora_low_noise_path = l, !.lora_high_noise_path = h,
                !.lora_multiplier = m, !.lora_multiplier_high_noise = mh,
                !.slg_layers = s, !.slg_mode = sm, !.slg_scale = sc] :
      b \in Backgrounds,
      l \in OptStrs("lora_low.safetensors"), h \in OptStrs("lora_high.safetensors"),
      m \in {10, 8}, mh \in {10, 12},
      s \in OptStrs("0,1,2"), sm \in {None, Some(""), Some("original"), Some("uncond")},
      sc \in {30, 25} }

\* the model paths and the negative prompt
PathFamily ==
    { [b EXCEPT !.dit_model_path = d, !.dit_high_noise_path = dh, !.vae_path = v,
                !.t5_path = t, !.negative_prompt = n] :
      b \in Backgrounds, d \in {"", "dit_low.safetensors"},
      dh \in OptStrs("dit_high.safetensors"), v \in OptStrs("vae.safetensors"),
      t \in OptStrs("t5.pth"), n \in OptStrs("blurry") }

\* the numeric options
NumericFamily ==
    { [b EXCEPT !.infer_steps = i, !.guidance_scale = g, !.guidance_scale_high_noise = gh,
                !.flow_shift = fs, !.timestep_boundary = tb, !.cfg_apply_ratio = ca,
                !.blocks_to_swap = bs, !.trim_tail_frames = tt] :
      b \in Backgrounds,
      i \in {None} \cup {Some(n) : n \in 0..MaxSteps},
      g \in {None, Some(0), Some(50)}, gh \in {None, Some(0), Some(35)},
      fs \in {None, Some(30)}, tb \in {None, Some(9)}, ca \in {None, Some(5)},
      bs \in -1..MaxBlocks, tt \in -1..MaxBlocks }

SampleSolvers == {"unipc", "dpm++", "vanilla"}
CfgSkipModes == {"early", "late", "middle", "early_late", "alternate", "none"}
AttnChoices == {"flash", "flash2", "flash3", "torch", "sageattn", "xformers", "sdpa"}
TaskChoices == {"t2v-14B", "t2v-1.3B", "i2v-14B", "t2i-14B"}
OutputTypeChoices == {"video", "images", "latent", "both", "latent_images"}

\* the enumerated options
EnumFamily ==
    { [b EXCEPT !.sample_solver = ss, !.cfg_skip_mode = cs, !.attn_mode = am,
                !.task = tk, !.output_type = ot] :
      b \in Backgrounds, ss \in SampleSolvers, cs \in CfgSkipModes, am \in AttnChoices,
      tk \in TaskChoices, ot \in OutputTypeChoices }

Requests == BoolFamily \cup PairFamily \cup PathFamily \cup NumericFamily \cup EnumFamily

InitBuilder ==
    /\ pc = "call"
    /\ req \in Requests
    /\ cmd_tokens = <<>>
    /\ cmd = ""
    /\ argv = None
    /\ args = None
    /\ stdout = <<>>
    /\ shell = <<>>
    /\ shell_status = <<>>
    /\ exit_code = None

\* one call of create_inference_command(**req)
CallBuilder ==
    /\ pc = "call"
    /\ cmd_tokens' = CommandTokens(req)
    /\ cmd' = create_inference_command(req)
    /\ pc' = "return"
    /\ UNCHANGED <<argv, args, req, stdout, shell, shell_status, exit_code>>

NextBuilder == CallBuilder

SpecBuilder == InitBuilder /\ [][NextBuilder]_vars

(***************************************************************************)
(* main(): argument parsing                                                *)
(***************************************************************************)
\* The command lines drawn.  An option that takes a value is None when it is
\* not typed; a store_true option is TRUE when it is typed.  The options not
\* listed here are never typed.
Argvs ==
    [ dit_model : {None, Some("m.safetensors")},
      lora_low_noise : {None, Some("l.safetensors")},
      video_size : {None, Some(<<1024, 576>>)},
      fps : {None, Some(30)},
      fp8 : BOOLEAN, fp8_scaled : BOOLEAN, fp8_fast : BOOLEAN, fp8_t5 : BOOLEAN,
      attn_mode : {None} \cup {Some(m) : m \in AttnChoices \cup {"flash4"}},
      compile : BOOLEAN,
      disable_h100_optimizations : BOOLEAN,
      dry_run : BOOLEAN,
      execute : BOOLEAN ]

\* argparse rejects a missing required option and a value outside choices
Accepted(a) ==
    /\ a.dit_model # None
    /\ a.lora_low_noise # None
    /\ a.attn_mode # None => a.attn_mode[1] \in AttnChoices

\* add_argument(..., default=d): the typed value, else the default
Valued(typed, d) == IF typed # None THEN typed[1] ELSE d

\* faulty variant: store_true with the usual default False
StoreTrue_DefaultFalse(typed, d) == typed

\* add_argument(..., action="store_true", default=d)
StoreTrue(typed, d) == IF typed THEN TRUE ELSE d

\* the namespace parser.parse_args() returns for an accepted command line
parse_args(a) ==
    [ dit_model |-> a.dit_model[1],
      dit_high_noise |-> None,
      vae |-> None,
      t5 |-> None,
      lora_low_noise |-> a.lora_low_noise[1],
      lora_high_noise |-> None,
      lora_multiplier |-> 10,
      lora_multiplier_high_noise |-> 10,
      prompt |-> "A video of Vanraj walking in a beautiful garden during sunset",
      negative_prompt |-> None,
      video_size |-> Valued(a.video_size, <<768, 512>>),
      video_length |-> 81,
      fps |-> Valued(a.fps, 24),
      seed |-> 42,
      guidance_scale |-> None,
      guidance_scale_high_noise |-> None,
      infer_steps |-> None,
      save_path |-> "./outputs",
      output_type |-> "video",
      task |-> "t2v-14B",
      device |-> "cuda",
      fp8 |-> StoreTrue(a.fp8, TRUE),
      fp8_scaled |-> StoreTrue(a.fp8_scaled, TRUE),
      fp8_fast |-> StoreTrue(a.fp8_fast, TRUE),
      fp8_t5 |-> StoreTrue(a.fp8_t5, TRUE),
      attn_mode |-> Valued(a.attn_mode, "flash3"),
      compile |-> StoreTrue(a.compile, TRUE),
      blocks_to_swap |-> 0,
      offload_inactive_dit |-> StoreTrue(FALSE, FALSE),
      vae_cache_cpu |-> StoreTrue(FALSE, FALSE),
      disable_h100_optimizations |-> StoreTrue(a.disable_h100_optimizations, FALSE),
      dry_run |-> StoreTrue(a.dry_run, FALSE),
      execute |-> StoreTrue(a.execute, FALSE) ]

\* the keyword arguments of the call at lines 360-390; what is not passed
\* keeps the default of the signature
CallRequest(a) ==
    [ DefaultRequest(a.dit_model) EXCEPT
      !.dit_high_noise_path = a.dit_high_noise,
      !.vae_path = a.vae,
      !.t5_path = a.t5,
      !.lora_low_noise_path = Some(a.lora_low_noise),
      !.lora_high_noise_path = a.lora_high_noise,
      !.lora_multiplier = a.lora_multiplier,
      !.lora_multiplier_high_noise = a.lora_multiplier_high_noise,
      !.prompt = a.prompt,
      !.negative_prompt = a.negative_prompt,
      !.video_size = a.video_size,
      !.video_length = a.video_length,
      !.fps = a.fps,
      !.seed = a.seed,
      !.guidance_scale = a.guidance_scale,
      !.guidance_scale_high_noise = a.guidance_scale_high_noise,
      !.infer_steps = a.infer_steps,
      !.task = a.task,
      !.device = a.device,
      !.fp8 = a.fp8,
      !.fp8_scaled = a.fp8_scaled,
      !.fp8_fast = a.fp8_fast,
      !.fp8_t5 = a.fp8_t5,
      !.compile_model = a.compile,
      !.blocks_to_swap = a.blocks_to_swap,
      !.offload_inactive_dit = a.offload_inactive_dit,
      !.vae_cache_cpu = a.vae_cache_cpu,
      !.save_path = a.save_path,
      !.output_type = a.output_type ]

(***************************************************************************)
(* main(): the steps                                                       *)
(***************************************************************************)
\* the statuses os.system may return: success, and exit code 1 of the child
ShellStatuses == {0, 256}

DisabledNotice == <<"H100 optimizations disabled - using conservative settings">>

EnabledNotice ==
    << "H100 SXM optimizations enabled:",
       "- FP8 Tensor Cores: fp8, fp8_scaled, fp8_fast, fp8_t5",
       "- Flash Attention 3: attn_mode=flash3",
       "- Torch.compile: kernel fusion enabled",
       "- Higher resolution: 768x512 default",
       "- Higher FPS: 24 default" >>

CommandHeading == "\nGenerated H100-optimized inference command:"

GuidanceNotice ==
    << "To execute this command, run with --execute flag or copy the command above",
       "\nFor maximum H100 performance, ensure:",
       "1. CUDA 12.0+ with H100 drivers installed",
       "2. PyTorch with FP8 support compiled",
       "3. Flash Attention 3 installed",
       "4. Sufficient cooling for sustained H100 performance" >>

Init ==
    /\ pc = "parse_args"
    /\ argv = None
    /\ args = None
    /\ req = NotCalled
    /\ cmd_tokens = <<>>
    /\ cmd = ""
    /\ stdout = <<>>
    /\ shell = <<>>
    /\ shell_status = <<>>
    /\ exit_code = None

\* line 335, the command line is accepted
ParseArgs ==
    /\ pc = "parse_args"
    /\ \E a \in Argvs :
         /\ Accepted(a)
         /\ argv' = a
         /\ args' = parse_args(a)
    /\ pc' = "profile"
    /\ UNCHANGED <<req, cmd_tokens, cmd, stdout, shell, shell_status, exit_code>>

\* line 335, the command line is rejected: usage message, exit status 2
ParseError ==
    /\ pc = "parse_args"
    /\ \E a \in Argvs :
         /\ ~Accepted(a)
         /\ argv' = a
    /\ pc' = "exited"
    /\ exit_code' = Some(2)
    /\ UNCHANGED <<args, req, cmd_tokens, cmd, stdout, shell, shell_status>>

\* lines 338-347
DisableOptimizations ==
    /\ pc = "profile"
    /\ args.disable_h100_optimizations
    /\ args' = [args EXCEPT !.fp8 = FALSE, !.fp8_scaled = FALSE, !.fp8_fast = FALSE,
                            !.fp8_t5 = FALSE, !.attn_mode = "torch", !.compile = FALSE,
                            !.video_size = <<512, 512>>, !.fps = 16]
    /\ stdout' = stdout \o DisabledNotice
    /\ pc' = "makedirs"
    /\ UNCHANGED <<argv, req, cmd_tokens, cmd, shell, shell_status, exit_code>>

\* lines 348-354
AnnounceOptimizations ==
    /\ pc = "profile"
    /\ ~args.disable_h100_optimizations
    /\ stdout' = stdout \o EnabledNotice
    /\ pc' = "makedirs"
    /\ UNCHANGED <<argv, args, req, cmd_tokens, cmd, shell, shell_status, exit_code>>

\* line 357, the directory exists or is created
MakeDirs ==
    /\ pc = "makedirs"
    /\ pc' = "create_command"
    /\ UNCHANGED <<argv, args, req, cmd_tokens, cmd, stdout, shell, shell_status, exit_code>>

\* line 357, os.makedirs raises OSError: traceback, exit status 1
MakeDirsFault ==
    /\ pc = "makedirs"
    /\ pc' = "exited"
    /\ exit_code' = Some(1)
    /\ UNCHANGED <<argv, args, req, cmd_tokens, cmd, stdout, shell, shell_status>>

\* lines 360-390
CreateCommand ==
    /\ pc = "create_command"
    /\ req' = CallRequest(args)
    /\ cmd_tokens' = CommandTokens(CallRequest(args))
    /\ cmd' = create_inference_command(CallRequest(args))
    /\ pc' = "print_command"
    /\ UNCHANGED <<argv, args, stdout, shell, shell_status, exit_code>>

\* lines 392-394
PrintCommand ==
    /\ pc = "print_command"
    /\ stdout' = stdout \o <<CommandHeading, cmd, "">>
    /\ pc' = "dispatch"
    /\ UNCHANGED <<argv, args, req, cmd_tokens, cmd, shell, shell_status, exit_code>>

\* lines 396-398
DryRun ==
    /\ pc = "dispatch"
    /\ args.dry_run
    /\ stdout' = Append(stdout, "Dry run mode - command not executed")
    /\ pc' = "exited"
    /\ exit_code' = Some(0)
    /\ UNCHANGED <<argv, args, req, cmd_tokens, cmd, shell, shell_status>>

\* faulty variant: the execute branch is tested before the dry-run branch
Execute_BeforeDryRun ==
    /\ pc = "dispatch"
    /\ args.execute
    /\ stdout' = Append(stdout, "Executing H100-optimized command...")
    /\ \E status \in ShellStatuses :
         /\ shell' = Append(shell, cmd)
         /\ shell_status' = Append(shell_status, status)
    /\ pc' = "exited"
    /\ exit_code' = Some(0)
    /\ UNCHANGED <<argv, args, req, cmd_tokens, cmd>>

\* faulty variant: sys.exit(os.system(cmd) >> 8)
Execute_PropagatesStatus ==
    /\ pc = "dispatch"
    /\ ~args.dry_run
    /\ args.execute
    /\ stdout' = Append(stdout, "Executing H100-optimized command...")
    /\ \E status \in ShellStatuses :
         /\ shell' = Append(shell, cmd)
         /\ shell_status' = Append(shell_status, status)
         /\ exit_code' = Some(status \div 256)
    /\ pc' = "exited"
    /\ UNCHANGED <<argv, args, req, cmd_tokens, cmd>>

\* lines 400-402 and the return from main: the status os.system returns is
\* dropped
Execute ==
    /\ pc = "dispatch"
    /\ ~args.dry_run
    /\ args.execute
    /\ stdout' = Append(stdout, "Executing H100-optimized command...")
    /\ \E status \in ShellStatuses :
         /\ shell' = Append(shell, cmd)
         /\ shell_status' = Append(shell_status, status)
    /\ pc' = "exited"
    /\ exit_code' = Some(0)
    /\ UNCHANGED <<argv, args, req, cmd_tokens, cmd>>

\* lines 403-409 and the return from main
PrintGuidance ==
    /\ pc = "dispatch"
    /\ ~args.dry_run
    /\ ~args.execute
    /\ stdout' = stdout \o GuidanceNotice
    /\ pc' = "exited"
    /\ exit_code' = Some(0)
    /\ UNCHANGED <<argv, args, req, cmd_tokens, cmd, shell, shell_status>>

Next ==
    \/ ParseArgs
    \/ ParseError
    \/ DisableOptimizations
    \/ AnnounceOptimizations
    \/ MakeDirs
    \/ MakeDirsFault
    \/ CreateCommand
    \/ PrintCommand
    \/ DryRun
    \/ Execute
    \/ PrintGuidance

Spec == Init /\ [][Next]_vars

(***************************************************************************)
(* Reading a token list                                                    *)
(***************************************************************************)
Has(tokens, t) == \E i \in 1..Len(tokens) : tokens[i] = t
Count(tokens, t) == Cardinality({i \in 1..Len(tokens) : tokens[i] = t})
IndexOf(tokens, t) == CHOOSE i \in 1..Len(tokens) : tokens[i] = t
\* the k-th token after the flag t
ValueAfter(tokens, t, k) == tokens[IndexOf(tokens, t) + k]
Position(order, t) == CHOOSE i \in 1..Len(order) : order[i] = t

\* the flags of the generated command line, in the order the specification
\* documents them
DownstreamFlags ==
    << "--task", "--save_path", "--prompt", "--dit", "--dit_high_noise", "--vae", "--t5",
       "--lora_weight", "--lora_weight_high_noise",
       "--lora_multiplier", "--lora_multiplier_high_noise",
       "--negative_prompt", "--video_size", "--video_length", "--fps", "--seed",
       "--infer_steps", "--guidance_scale", "--guidance_scale_high_noise",
       "--flow_shift", "--timestep_boundary", "--sample_solver", "--cfg_skip_mode",
       "--cfg_apply_ratio", "--slg_layers", "--slg_scale", "--slg_start", "--slg_end",
       "--slg_mode", "--device", "--vae_dtype", "--fp8", "--fp8_scaled", "--fp8_fast",
       "--fp8_t5", "--attn_mode", "--compile", "--blocks_to_swap",
       "--offload_inactive_dit", "--vae_cache_cpu", "--cpu_noise", "--output_type",
       "--trim_tail_frames", "--no_metadata" >>

\* the same list with each LoRA multiplier next to its own weight
PairedFlags ==
    [ i \in 1..Len(DownstreamFlags) |->
        IF i = 9 THEN "--lora_multiplier"
        ELSE IF i = 10 THEN "--lora_weight_high_noise"
        ELSE DownstreamFlags[i] ]

IsFlag(t) == Has(DownstreamFlags, t)

\* the flags of a token list, values dropped
FlagsOf(tokens) == SelectSeq(tokens, IsFlag)

FollowsOrder(tokens, order) ==
    LET flags == FlagsOf(tokens)
    IN  \A i \in 1..(Len(flags) - 1) : Position(order, flags[i]) < Position(order, flags[i + 1])

\* create_inference_command has returned
Returned == pc = "return"

(***************************************************************************)
(* Claims about create_inference_command, checked under SpecBuilder        *)
(***************************************************************************)

\* C4, as stated: each of --slg_scale, --slg_start, --slg_end and --slg_mode is in
\* the output if and only if slg_layers is non-empty and --slg_layers is emitted.
C4_SlgEmittedAsUnit ==
    Returned =>
        \A f \in {"--slg_scale", "--slg_start", "--slg_end", "--slg_mode"} :
            Has(cmd_tokens, f) <=> (TruthyStr(req.slg_layers) /\ Has(cmd_tokens, "--slg_layers"))

\* C4, amended: --slg_scale, --slg_start and --slg_end are in the output if and
\* only if slg_layers is non-empty and --slg_layers is emitted; --slg_mode is in
\* the output if and only if, in addition, slg_mode itself is non-empty.
C4_SlgEmittedAsUnitModeOptional ==
    Returned =>
        /\ Has(cmd_tokens, "--slg_layers") <=> TruthyStr(req.slg_layers)
        /\ \A f \in {"--slg_scale", "--slg_start", "--slg_end"} :
             Has(cmd_tokens, f) <=> (TruthyStr(req.slg_layers) /\ Has(cmd_tokens, "--slg_layers"))
        /\ Has(cmd_tokens, "--slg_mode") <=>
             (TruthyStr(req.slg_layers) /\ Has(cmd_tokens, "--slg_layers") /\ TruthyStr(req.slg_mode))

\* C4 witness: layers are given without a mode; scale, start and end are emitted
\* and --slg_mode is not.
C4_Witness ==
    /\ Returned
    /\ req.slg_layers = Some("0,1,2")
    /\ req.slg_mode = None
    /\ Has(cmd_tokens, "--slg_layers")
    /\ Has(cmd_tokens, "--slg_scale")
    /\ ~Has(cmd_tokens, "--slg_mode")

\* C5: --lora_multiplier is in the output if and only if --lora_weight is, and
\* --lora_multiplier_high_noise if and only if --lora_weight_high_noise is; each
\* multiplier flag comes right after its path value; each pair depends on its own
\* path alone.
C5_LoraPairs ==
    Returned =>
        /\ Has(cmd_tokens, "--lora_multiplier") <=> Has(cmd_tokens, "--lora_weight")
        /\ Has(cmd_tokens, "--lora_multiplier_high_noise")
             <=> Has(cmd_tokens, "--lora_weight_high_noise")
        /\ Has(cmd_tokens, "--lora_weight") <=> TruthyStr(req.lora_low_noise_path)
        /\ Has(cmd_tokens, "--lora_weight_high_noise") <=> TruthyStr(req.lora_high_noise_path)
        /\ Has(cmd_tokens, "--lora_weight") =>
             /\ ValueAfter(cmd_tokens, "--lora_weight", 1) = req.lora_low_noise_path[1]
             /\ ValueAfter(cmd_tokens, "--lora_weight", 2) = "--lora_multiplier"
             /\ ValueAfter(cmd_tokens, "--lora_weight", 3) = FloatStr(req.lora_multiplier)
        /\ Has(cmd_tokens, "--lora_weight_high_noise") =>
             /\ ValueAfter(cmd_tokens, "--lora_weight_high_noise", 1) = req.lora_high_noise_path[1]
             /\ ValueAfter(cmd_tokens, "--lora_weight_high_noise", 2) = "--lora_multiplier_high_noise"
             /\ ValueAfter(cmd_tokens, "--lora_weight_high_noise", 3)
                  = FloatStr(req.lora_multiplier_high_noise)

\* C5 witness: only the low-noise LoRA is given, with the default multiplier.
C5_Witness ==
    /\ Returned
    /\ req.lora_low_noise_path = Some("lora_low.safetensors")
    /\ req.lora_high_noise_path = None
    /\ req.lora_multiplier = 10
    /\ ValueAfter(cmd_tokens, "--lora_multiplier", 1) = "1.0"
    /\ ~Has(cmd_tokens, "--lora_multiplier_high_noise")

\* C6, its last clause: an optional numeric field that was supplied (is not None)
\* is not dropped from the output.
C6_SuppliedFieldNotDropped ==
    Returned =>
        /\ req.infer_steps # None => Has(cmd_tokens, "--infer_steps")
        /\ req.guidance_scale # None => Has(cmd_tokens, "--guidance_scale")
        /\ req.guidance_scale_high_noise # None => Has(cmd_tokens, "--guidance_scale_high_noise")
        /\ req.flow_shift # None => Has(cmd_tokens, "--flow_shift")
        /\ req.timestep_boundary # None => Has(cmd_tokens, "--timestep_boundary")
        /\ req.cfg_apply_ratio # None => Has(cmd_tokens, "--cfg_apply_ratio")

\* the switches of create_inference_command and their flags
Switches ==
    { <<"fp8", "--fp8">>, <<"fp8_scaled", "--fp8_scaled">>, <<"fp8_fast", "--fp8_fast">>,
      <<"fp8_t5", "--fp8_t5">>, <<"compile_model", "--compile">>,
      <<"offload_inactive_dit", "--offload_inactive_dit">>,
      <<"vae_cache_cpu", "--vae_cache_cpu">>, <<"cpu_noise", "--cpu_noise">>,
      <<"no_metadata", "--no_metadata">> }

\* the token after the flag t is another flag, or t is the last token
Bare(tokens, t) ==
    \A i \in 1..Len(tokens) :
        tokens[i] = t => (i = Len(tokens) \/ IsFlag(tokens[i + 1]))

\* C7: each switch that is true puts its flag in the output exactly once, with no
\* value after it; each switch that is false puts nothing; whatever the other
\* switches are.
C7_BooleanFlags ==
    Returned =>
        \A s \in Switches :
            /\ Count(cmd_tokens, s[2]) = (IF req[s[1]] THEN 1 ELSE 0)
            /\ Bare(cmd_tokens, s[2])

\* C7 witness: fp8 is off and fp8_fast is on; --fp8_fast is emitted, --fp8 is not.
C7_Witness ==
    /\ Returned
    /\ ~req.fp8
    /\ req.fp8_fast
    /\ ~req.compile_model
    /\ req.no_metadata
    /\ Has(cmd_tokens, "--fp8_fast")
    /\ ~Has(cmd_tokens, "--fp8")
    /\ cmd_tokens[Len(cmd_tokens)] = "--no_metadata"

\* the output for a request with only dit_model_path set
MinimalTokens ==
    << "python", "wan_generate_video.py", "--task", "t2v-14B", "--save_path", "./outputs",
       "--prompt", "\"A video of CHARACTER_VANRAJ_V1 walking in a garden\"",
       "--dit", "dit_low.safetensors", "--video_size", "768", "512",
       "--video_length", "81", "--fps", "24", "--seed", "42", "--sample_solver", "unipc",
       "--device", "cuda", "--vae_dtype", "bfloat16", "--fp8", "--fp8_scaled", "--fp8_fast",
       "--fp8_t5", "--attn_mode", "flash3", "--compile", "--output_type", "video" >>

MinimalExact ==
    req = DefaultRequest("dit_low.safetensors") =>
        /\ cmd_tokens = MinimalTokens
        /\ cmd = Join(MinimalTokens)

\* C8, as stated: the flags of the output are in the relative order of the
\* documented flag list, and a request with only the required field set yields
\* exactly the required flags and the always-on defaults.
C8_DocumentedOrder ==
    Returned =>
        /\ FollowsOrder(cmd_tokens, DownstreamFlags)
        /\ MinimalExact

\* C8, amended: the same, except that each LoRA multiplier flag comes right after
\* its own weight: --lora_weight, --lora_multiplier, --lora_weight_high_noise,
\* --lora_multiplier_high_noise.
C8_PairedOrder ==
    Returned =>
        /\ FollowsOrder(cmd_tokens, PairedFlags)
        /\ MinimalExact

\* C8 witness: both LoRAs and every optional flag are in the output.
C8_Witness ==
    /\ Returned
    /\ req = FullRequest
    /\ Len(FlagsOf(cmd_tokens)) = Len(DownstreamFlags)
    /\ IndexOf(cmd_tokens, "--lora_multiplier") < IndexOf(cmd_tokens, "--lora_weight_high_noise")

(***************************************************************************)
(* Claims about main(), checked under Spec                                 *)
(***************************************************************************)
\* parse_args has returned a namespace
Parsed == pc # "parse_args" /\ exit_code # Some(2)

\* create_inference_command has been called and has returned
Built == cmd_tokens # <<>>

\* the line printed right after the heading of the command
CommandPrinted == Has(stdout, CommandHeading)
PrintedCommand == ValueAfter(stdout, CommandHeading, 1)

\* C1: with --dry_run the shell is never invoked, --execute or not; with --execute
\* and without --dry_run it is invoked exactly once when main returns, after the
\* command was printed and with the very string printed; with neither it is never
\* invoked.
C1_ShellInvocation ==
    Parsed =>
        /\ args.dry_run => shell = <<>>
        /\ (~args.dry_run /\ ~args.execute) => shell = <<>>
        /\ Len(shell) <= 1
        /\ shell # <<>> =>
             /\ args.execute /\ ~args.dry_run
             /\ CommandPrinted
             /\ shell[1] = PrintedCommand
             /\ shell[1] = Join(cmd_tokens)
        /\ (args.execute /\ ~args.dry_run /\ exit_code = Some(0)) => Len(shell) = 1

\* C1 witness: main has returned in execute mode and the shell got the printed
\* command.
C1_Witness ==
    /\ pc = "exited"
    /\ Parsed
    /\ args.execute
    /\ ~args.dry_run
    /\ CommandPrinted
    /\ shell = <<PrintedCommand>>
    /\ shell # <<"">>

\* C2: with --disable_h100_optimizations the generated command carries resolution
\* 512 512, frame rate 16, none of --fp8, --fp8_scaled, --fp8_fast, --fp8_t5, no
\* --compile, and attention mode torch, that is no --attn_mode token.
C2_DisableForcesConservative ==
    (Built /\ argv.disable_h100_optimizations) =>
        /\ ValueAfter(cmd_tokens, "--video_size", 1) = "512"
        /\ ValueAfter(cmd_tokens, "--video_size", 2) = "512"
        /\ ValueAfter(cmd_tokens, "--fps", 1) = "16"
        /\ \A f \in {"--fp8", "--fp8_scaled", "--fp8_fast", "--fp8_t5", "--compile"} :
             ~Has(cmd_tokens, f)
        /\ ~Has(cmd_tokens, "--attn_mode")

\* C3: the attention mode of the namespace after parsing and the override is the
\* one the generated command carries: --attn_mode followed by it when it is not
\* torch, no --attn_mode token when it is torch.
C3_AttnModeCarried ==
    Built =>
        IF args.attn_mode = "torch"
        THEN ~Has(cmd_tokens, "--attn_mode")
        ELSE /\ Has(cmd_tokens, "--attn_mode")
             /\ ValueAfter(cmd_tokens, "--attn_mode", 1) = args.attn_mode

\* C9: on each of the three paths after the command is printed (dry run, print
\* only, execute) main can take its step and the process ends with exit code 0,
\* whatever status the shell returned.
C9_NormalCompletion ==
    /\ pc = "dispatch" => ENABLED (DryRun \/ Execute \/ PrintGuidance)
    /\ (pc = "exited" /\ CommandPrinted) => exit_code = Some(0)
    /\ shell_status # <<>> => (pc = "exited" /\ exit_code = Some(0))

\* C9 witness: the external command failed and main still ended with exit code 0.
C9_Witness ==
    /\ pc = "exited"
    /\ shell_status = <<256>>
    /\ exit_code = Some(0)

\* C10: without --disable_h100_optimizations the generated command contains --fp8,
\* --fp8_scaled, --fp8_fast, --fp8_t5 and --compile, whichever of them were typed.
C10_OptimizationsAlwaysOn ==
    (Built /\ ~argv.disable_h100_optimizations) =>
        \A f \in {"--fp8", "--fp8_scaled", "--fp8_fast", "--fp8_t5", "--compile"} :
            Count(cmd_tokens, f) = 1

\* C10 witness: none of the five options was typed and all five flags are in the
\* command.
C10_Witness ==
    /\ Built
    /\ ~argv.disable_h100_optimizations
    /\ ~argv.fp8 /\ ~argv.fp8_scaled /\ ~argv.fp8_fast /\ ~argv.fp8_t5 /\ ~argv.compile
    /\ Has(cmd_tokens, "--fp8")
    /\ Has(cmd_tokens, "--compile")

====
